---- MODULE Spec2Model ----
(***************************************************************************)
(* Model of the diagnostic report renderer of bpflint                      *)
(* (src/report/terminal.rs, src/report/highlight.rs).                      *)
(*                                                                         *)
(* report_opts is modelled as a state machine with one step per            *)
(* writeln! on the sink.  Text is a sequence of atoms: an atom is one      *)
(* character of output, or one style token (an ANSI escape constant or an  *)
(* HTML tag).  A written line is kept without its terminating newline.     *)
(* Byte offsets are zero-based as in the source; code[i + 1] is the byte   *)
(* at offset i.                                                            *)
(***************************************************************************)
EXTENDS Integers, Sequences, FiniteSets, TLC

\* ------------------------------------------------------------- bounds ---
MaxLen == 3          \* longest source buffer, in bytes
MaxRowSpan == 2      \* end_row - start_row of a match is at most this
MaxColSpan == 2      \* widest column span of an end point
MaxCtx == 1          \* a context count the buffer can satisfy
LargeCtx == 10       \* one context count larger than any buffer

\* -------------------------------------------------------------- bytes ---
NL == "\n"
BAD == "0xFF"                \* a byte that is not valid UTF-8
REPLACEMENT == "U+FFFD"      \* what lossy decoding puts in its place
Bytes == {"<", BAD, NL}
\* The buffers tried: up to MaxLen bytes, newlines and copies of one other
\* byte.
Buffers == UNION {[1..n -> {b, NL}] : n \in 0..MaxLen, b \in Bytes \ {NL}}
CtxValues == {0, MaxCtx, LargeCtx}
\* How much of a line a failing sink may still have taken: nothing, or its
\* first atom.
PartialLens == {0, 1}

Min(a, b) == IF a < b THEN a ELSE b
Max(a, b) == IF a > b THEN a ELSE b

RECURSIVE Repeat(_, _)
Repeat(c, n) == IF n <= 0 THEN <<>> ELSE <<c>> \o Repeat(c, n - 1)

RECURSIVE Concat(_)
Concat(ss) == IF ss = <<>> THEN <<>> ELSE Head(ss) \o Concat(Tail(ss))

Reverse(s) == [i \in 1..Len(s) |-> s[Len(s) + 1 - i]]

IsPrefix(p, s) == Len(p) <= Len(s) /\ SubSeq(s, 1, Len(p)) = p

\* ------------------------------------------------ integer formatting ---
DigitChar(d) == <<"0", "1", "2", "3", "4", "5", "6", "7", "8", "9">>[d + 1]

\* usize::to_string / Display of an unsigned integer.
RECURSIVE ToDigits(_)
ToDigits(n) == IF n < 10 THEN <<DigitChar(n)>>
               ELSE ToDigits(n \div 10) \o <<DigitChar(n % 10)>>

\* format!("{n:w$}") of an integer: right-aligned, w is a minimum width.
PadNum(n, w) == Repeat(" ", w - Len(ToDigits(n))) \o ToDigits(n)

\* format!("{:f<w$}", ""): the empty string filled to width w with f.
PadFill(f, w) == Repeat(f, w)

\* ------------------------------------------------------- tree-sitter ---
\* Point of a byte offset as tree-sitter reports it: the row is the number
\* of newline bytes before the offset, the column the distance to the
\* start of that row.
NewlinesBefore(buf, off) == {i \in 1..off : buf[i] = NL}
LineStart(buf, off) ==
    IF NewlinesBefore(buf, off) = {} THEN 0
    ELSE CHOOSE i \in NewlinesBefore(buf, off) :
             \A j \in NewlinesBefore(buf, off) : j <= i
PointOf(buf, off) ==
    [row |-> Cardinality(NewlinesBefore(buf, off)),
     col |-> off - LineStart(buf, off)]

\* ------------------------------------------------------------- Lines ---
\* The lines of a buffer, split on the newline byte; the newline is not
\* part of a line, a final line without newline is still a line, and an
\* empty remainder after the last newline is no line.
RECURSIVE AllLines(_)
AllLines(buf) ==
    IF buf = <<>> THEN <<>>
    ELSE LET nls == {i \in 1..Len(buf) : buf[i] = NL}
         IN IF nls = {} THEN <<buf>>
            ELSE LET i == CHOOSE k \in nls : \A j \in nls : k <= j
                 IN <<SubSeq(buf, 1, i - 1)>>
                    \o AllLines(SubSeq(buf, i + 1, Len(buf)))

\* Lines::new(code, offset), iterated forward: the line containing the
\* offset, then every following line.
LinesForward(buf, off) ==
    LET all == AllLines(buf)
    IN SubSeq(all, PointOf(buf, off).row + 1, Len(all))

\* Lines::new(code, offset).rev(): the line of the offset first, then the
\* lines before it, closest first (report_opts skips the first item as
\* "the line of the match").
LinesBackward(buf, off) ==
    LET all == AllLines(buf)
    IN Reverse(SubSeq(all, 1, Min(PointOf(buf, off).row + 1, Len(all))))

\* ------------------------------------------------------ ansi colours ---
\* The escape constants of report::ansi_color, one atom each.
COLOR_BOLD == "COLOR_BOLD"
COLOR_RED == "COLOR_RED"
COLOR_BLUE == "COLOR_BLUE"
COLOR_RESET == "COLOR_RESET"
COLOR_PURPLE == "COLOR_PURPLE"
StyleAtoms ==
    {COLOR_BOLD, COLOR_RED, COLOR_BLUE, COLOR_RESET, COLOR_PURPLE,
     "<span class=\"bold\">", "<span class=\"warn\">",
     "<span class=\"highlight\">", "<span class=\"hl-function\">", "</span>"}

\* A faulty get_format_strings: the escape codes whatever the colour flag.
get_format_strings_always(tgt, color) ==
    [bold |-> <<COLOR_BOLD>>,
     warn |-> <<COLOR_BOLD, COLOR_RED>>,
     highlight |-> <<COLOR_BOLD, COLOR_BLUE>>,
     reset |-> <<COLOR_RESET>>]

\* get_format_strings: (bold, warn, highlight, reset).
get_format_strings(tgt, color) ==
    IF tgt = "wasm32"
    THEN [bold |-> <<"<span class=\"bold\">">>,
          warn |-> <<"<span class=\"warn\">">>,
          highlight |-> <<"<span class=\"highlight\">">>,
          reset |-> <<"</span>">>]
    ELSE IF color
         THEN [bold |-> <<COLOR_BOLD>>,
               warn |-> <<COLOR_BOLD, COLOR_RED>>,
               highlight |-> <<COLOR_BOLD, COLOR_BLUE>>,
               reset |-> <<COLOR_RESET>>]
         ELSE [bold |-> <<>>, warn |-> <<>>, highlight |-> <<>>, reset |-> <<>>]

\* html_escape::encode_safe of one character.
EncodeSafeChar(c) ==
    CASE c = "&" -> <<"&", "a", "m", "p", ";">>
      [] c = "<" -> <<"&", "l", "t", ";">>
      [] c = ">" -> <<"&", "g", "t", ";">>
      [] c = "\"" -> <<"&", "q", "u", "o", "t", ";">>
      [] c = "'" -> <<"&", "#", "x", "2", "7", ";">>
      [] c = "/" -> <<"&", "#", "x", "2", "F", ";">>
      [] OTHER -> <<c>>
EncodeSafe(text) == Concat([i \in 1..Len(text) |-> EncodeSafeChar(text[i])])

\* escape_html: the identity on a terminal, entity encoding for HTML.
escape_html(tgt, text) == IF tgt = "wasm32" THEN EncodeSafe(text) ELSE text

\* ------------------------------------------------------- highlighter ---
\* String::from_utf8_lossy: an invalid byte becomes U+FFFD.
FromUtf8Lossy(bytes) ==
    [i \in 1..Len(bytes) |-> IF bytes[i] = BAD THEN REPLACEMENT ELSE bytes[i]]

\* NopHighlighter::highlight.
NopHighlight(line) == FromUtf8Lossy(line)

\* The event stream of the highlighting engine for one line.  The engine is
\* an external collaborator: it is taken to report a non-empty line as one
\* highlighted source span of group 0 ("function"), an empty line as no
\* event at all, and never to fail on a line once it is configured.
HighlightEvents(line) ==
    IF line = <<>> THEN <<>>
    ELSE <<[ev |-> "HighlightStart", group |-> 0],
           [ev |-> "Source", start |-> 0, end |-> Len(line)],
           [ev |-> "HighlightEnd"]>>

\* ansi_for_highlight / html_for_highlight for group 0.
StyleForHighlight(tgt, group) ==
    IF tgt = "wasm32" THEN "<span class=\"hl-function\">" ELSE COLOR_PURPLE

\* TreeSitterHighlighter::highlight and TreeSitterHtmlHighlighter::highlight:
\* the fold over the engine's events.
TreeSitterEvent(tgt, line, e) ==
    CASE e.ev = "Source" ->
             LET text == FromUtf8Lossy(SubSeq(line, e.start + 1, e.end))
             IN IF tgt = "wasm32" THEN EncodeSafe(text) ELSE text
      [] e.ev = "HighlightStart" -> <<StyleForHighlight(tgt, e.group)>>
      [] e.ev = "HighlightEnd" ->
             IF tgt = "wasm32" THEN <<"</span>">> ELSE <<COLOR_RESET>>
TreeSitterHighlight(tgt, line) ==
    Concat([i \in 1..Len(HighlightEvents(line)) |->
                TreeSitterEvent(tgt, line, HighlightEvents(line)[i])])

\* A faulty create_highlighter: the no-op highlighter when construction
\* fails.
create_highlighter_fallback(color, cfgOk) ==
    IF color /\ cfgOk THEN [ok |-> TRUE, h |-> "TreeSitter"]
    ELSE [ok |-> TRUE, h |-> "Nop"]

\* create_highlighter: the no-op highlighter without colour; with colour
\* the tree-sitter one, whose construction fails on a bad configuration.
create_highlighter(color, cfgOk) ==
    IF ~color THEN [ok |-> TRUE, h |-> "Nop"]
    ELSE IF cfgOk THEN [ok |-> TRUE, h |-> "TreeSitter"]
    ELSE [ok |-> FALSE, h |-> "none"]

\* Highlighter::highlight, dispatched on the boxed highlighter.
Highlight(h, tgt, line) ==
    IF h = "TreeSitter" THEN TreeSitterHighlight(tgt, line) ELSE NopHighlight(line)

\* -------------------------------------------------------------- state ---
VARIABLES
    code,         \* the source buffer handed to report_opts
    m,            \* the LintMatch: lint_name, message, range
    opts,         \* Opts: extra_lines (before, after) and color
    target,       \* the build target: "native" or "wasm32"
    configOk,     \* whether the highlight configuration can be built
    pc,           \* the statement report_opts executes next
    highlighter,  \* the highlighter create_highlighter returned
    out,          \* the lines the sink accepted, in order
    partial,      \* what the sink accepted of the line whose write failed
    attempts,     \* the number of writeln! calls made on the sink
    result,       \* "running", "Ok", or the error returned
    before,       \* context-before items (row_sub, line) still to be written
    lines,        \* the forward Lines iterator: the lines it has left
    idx,          \* enumerate() index of the multi-line row loop
    row_add,      \* enumerate() index of the context-after loop
    entry,        \* the function the caller called: "report" or "report_opts"
    again,        \* whether this is a second call with the same arguments
    prev          \* what the call before this one wrote and returned

vars == <<code, m, opts, target, configOk, pc, highlighter, out, partial,
          attempts, result, before, lines, idx, row_add, entry, again, prev>>

inputs == <<code, m, opts, target, configOk, entry>>
earlier == <<again, prev>>

\* The display path and the texts of the match are fixed; they contain
\* characters that HTML escaping rewrites.
PathDisplay == <<"<", "t", ">">>
LintName == <<"x">>
Message == <<"y", "&">>

\* The row and column spans of the end points tried: none, one, the bound.
RowSpans == {0, 1, MaxRowSpan}
ColSpans == {0, 1, MaxColSpan}

\* A Range whose byte span lies in the buffer and whose start point is
\* the point of bytes.start (the SANITY comments of report_opts: the range
\* maps to a valid code location).  The end point is any point not before
\* the start point: callers build it by hand (tests::
\* multi_line_trailing_line_empty), it may lie past the last line, and its
\* column need not match bytes.end.
Ranges(buf) ==
    {[bytes |-> [start |-> s, end |-> e],
      start_point |-> PointOf(buf, s),
      end_point |-> [row |-> PointOf(buf, s).row + dr,
                     col |-> IF dr = 0 THEN PointOf(buf, s).col + dc ELSE dc]] :
        s \in 0..Len(buf), e \in 0..Len(buf), dr \in RowSpans, dc \in ColSpans}

ValidRange(buf, r) ==
    /\ r.bytes.start <= r.bytes.end
    /\ r.bytes.end <= Len(buf)
    /\ r.start_point = PointOf(buf, r.bytes.start)
    /\ \/ r.end_point.row > r.start_point.row
       \/ /\ r.end_point.row = r.start_point.row
          /\ r.end_point.col >= r.start_point.col

\* #[derive(Default)] on Opts: (0, 0) for the (u8, u8), false for the bool.
\* (Opts_default_context is a faulty default that asks for context.)
Opts_default_context == [extra_lines |-> <<MaxCtx, MaxCtx>>, color |-> FALSE]
Opts_default == [extra_lines |-> <<0, 0>>, color |-> FALSE]

\* The two entry points, and the Opts report_opts is called with: report
\* passes &Opts::default(), a caller of report_opts passes any Opts.
Entries == {"report", "report_opts"}
report_opts_args(e) ==
    IF e = "report" THEN {Opts_default}
    ELSE [extra_lines : CtxValues \X CtxValues, color : BOOLEAN]

\* No call went before.
NoCall == [texts |-> <<>>, result |-> "none"]

InitTarget(tgt) ==
    /\ code \in Buffers
    /\ \E r \in Ranges(code) :
          /\ ValidRange(code, r)
          /\ m = [lint_name |-> LintName, message |-> Message, range |-> r]
    /\ entry \in Entries
    /\ opts \in report_opts_args(entry)
    /\ again = FALSE
    /\ prev = NoCall
    /\ target = tgt
    /\ configOk \in BOOLEAN
    /\ (~opts.color => configOk)
    /\ pc = "create"
    /\ highlighter = "none"
    /\ out = <<>>
    /\ partial = <<>>
    /\ attempts = 0
    /\ result = "running"
    /\ before = <<>>
    /\ lines = <<>>
    /\ idx = 0
    /\ row_add = 0

\* ------------------------------------------------- locals of the call ---
range == m.range
start_row == range.start_point.row
end_row == range.end_point.row
start_col == range.start_point.col
end_col == range.end_point.col
context_before == opts.extra_lines[1]
context_after == opts.extra_lines[2]
fmt == get_format_strings(target, opts.color)

\* A faulty prefix_indent: the width of end_row alone.
prefix_indent_end_row == Len(ToDigits(end_row))
prefix_indent == Len(ToDigits(end_row + context_after))
\* A faulty code_indent: one column for the connector, not three.
code_indent_narrow == IF start_row = end_row THEN 0 ELSE 1
code_indent == IF start_row = end_row THEN 0 ELSE 3

\* format!("{highlight}{:prefix_indent$} |{reset} ", "")
prefix == fmt.highlight \o Repeat(" ", prefix_indent) \o <<" ", "|">>
          \o fmt.reset \o <<" ">>

\* format!("{highlight}{row:prefix_indent$} |{reset} ")
RowPrefix(row) == fmt.highlight \o PadNum(row, prefix_indent) \o <<" ", "|">>
                  \o fmt.reset \o <<" ">>

HeaderLine ==
    fmt.warn \o <<"w", "a", "r", "n", "i", "n", "g">> \o fmt.reset \o fmt.bold
    \o <<":", " ", "[">> \o escape_html(target, m.lint_name) \o <<"]", " ">>
    \o escape_html(target, m.message) \o fmt.reset

LocationLine ==
    <<" ", " ">> \o fmt.highlight \o <<"-", "-", ">">> \o fmt.reset \o <<" ">>
    \o escape_html(target, PathDisplay) \o <<":">> \o ToDigits(start_row)
    \o <<":">> \o ToDigits(start_col)

\* A context line, before or after the match.
ContextLine(row, line) ==
    RowPrefix(row) \o Repeat(" ", code_indent)
    \o Highlight(highlighter, target, line)

\* The code line of a single-line match.
MatchLine(line) == RowPrefix(start_row) \o Highlight(highlighter, target, line)

\* The underline of a single-line match.
\* A faulty width: never less than one caret.
UnderlineWidthAtLeastOne == Max(end_col - start_col, 1)
\* width = end_col.saturating_sub(start_col)
UnderlineWidth == Max(end_col - start_col, 0)
UnderlineLine ==
    prefix \o Repeat(" ", start_col) \o fmt.warn
    \o PadFill("^", UnderlineWidth) \o fmt.reset

\* A faulty connector: '|' on every row.
ConnectorBar(i) == "|"
\* The connector of a row of a multi-line match.
Connector(i) == IF i = 0 THEN "/" ELSE "|"

\* A row of a multi-line match.
MatchRowLine(i, row, line) ==
    RowPrefix(row) \o <<" ">> \o fmt.warn \o <<Connector(i)>> \o fmt.reset
    \o <<" ">> \o Highlight(highlighter, target, line)

\* A faulty fill: the distance from start_col.
ClosingFillFromStart == Max(end_col - start_col, 0)
\* width = end_col
ClosingFill == end_col
\* The closing underline of a multi-line match.
ClosingLine ==
    prefix \o <<" ">> \o fmt.warn \o <<"|">> \o PadFill("_", ClosingFill)
    \o <<"^">> \o fmt.reset

\* Lines::new(code, range.bytes.start).rev().skip(1).take(extra_lines.0)
\* .collect(): the lines before the match, closest first.
\* (KeepMatchLine is the faulty variant without skip(1).)
KeepMatchLine(ls) == ls
SkipMatchLine(ls) == IF ls = <<>> THEN <<>> ELSE Tail(ls)
Take(n, ls) == SubSeq(ls, 1, Min(n, Len(ls)))
CollectBefore ==
    Take(context_before, SkipMatchLine(LinesBackward(code, range.bytes.start)))

\* A faulty order: the trailing .rev() is missing, the closest line comes
\* first.
EnumerateForward(v) ==
    [i \in 1..Len(v) |-> [row_sub |-> i - 1, line |-> v[i]]]

\* .into_iter().enumerate().rev(): the items in the order they are written.
EnumerateRev(v) ==
    [i \in 1..Len(v) |-> [row_sub |-> Len(v) - i, line |-> v[Len(v) - i + 1]]]

\* ------------------------------------------------------------ the sink ---
\* A faulty writeln!: the error of a failed write is noted and the call
\* goes on.
WritelnGoesOn(kind, text, next, res) ==
    /\ attempts' = attempts + 1
    /\ \/ /\ out' = Append(out, [kind |-> kind, text |-> text])
          /\ partial' = partial
          /\ pc' = next
          /\ result' = res
       \/ /\ \E k \in {Min(n, Len(text)) : n \in PartialLens} :
                partial' = SubSeq(text, 1, k)
          /\ out' = out
          /\ pc' = next
          /\ result' = "ErrIo"

\* writeln!(writer, ...)?: the sink takes the line and the call goes on at
\* `next`, or the write fails, the sink keeps at most a prefix of the line,
\* and report_opts returns the error.
Writeln(kind, text, next, res) ==
    /\ attempts' = attempts + 1
    /\ \/ /\ out' = Append(out, [kind |-> kind, text |-> text])
          /\ partial' = partial
          /\ pc' = next
          /\ result' = res
       \/ /\ \E k \in {Min(n, Len(text)) : n \in PartialLens} :
                partial' = SubSeq(text, 1, k)
          /\ out' = out
          /\ pc' = "done"
          /\ result' = "ErrIo"

\* A faulty emptiness test: no span counts as empty.
IsEmptySpanNever(r) == FALSE
\* range.bytes.is_empty(): Range<usize>::is_empty is !(start < end).
IsEmptySpan(r) == ~(r.bytes.start < r.bytes.end)

\* A faulty row loop: running out of lines skips the closing underline.
RowLoopPcSkipClose(i, ls) ==
    IF i <= end_row - start_row /\ ls # <<>> THEN "multi"
    ELSE IF ls = <<>> THEN "final" ELSE "close"

\* The row loop of a multi-line match before its turn i: the turn runs if
\* i is in range and lines.next() yields a line, else the loop is left for
\* the closing underline.
RowLoopPc(i, ls) ==
    IF i <= end_row - start_row /\ ls # <<>> THEN "multi" ELSE "close"

\* Where the call goes on after the context-before loop: the single-line
\* branch, or the row loop of a multi-line match, which breaks at once when
\* Lines has no line.
MatchPc(ls) ==
    IF start_row = end_row THEN "single"
    ELSE RowLoopPc(0, ls)

\* A faulty end: without context after the match the call returns
\* right after the underline.
AfterPcNoFinal(ls, taken) ==
    IF taken < context_after /\ ls # <<>> THEN "after"
    ELSE IF context_after = 0 THEN "done" ELSE "final"

\* Where the call goes on after the underline: the context-after loop
\* while take(extra_lines.1) still yields a line, else the final separator.
AfterPc(ls, taken) ==
    IF taken < context_after /\ ls # <<>> THEN "after" ELSE "final"

\* ------------------------------------------------------------ actions ---
\* A faulty order: the header is written before the highlighter is
\* created, so a construction failure comes after a write.
CreateHighlighterAfterHeader ==
    /\ pc = "create"
    /\ LET r == create_highlighter(opts.color, configOk)
       IN /\ highlighter' = r.h
          /\ pc' = IF r.ok THEN "header" ELSE "done"
          /\ result' = IF r.ok THEN result ELSE "ErrHighlightConfig"
          /\ out' = IF r.ok THEN out
                    ELSE Append(out, [kind |-> "header", text |-> HeaderLine])
          /\ attempts' = IF r.ok THEN attempts ELSE attempts + 1
    /\ UNCHANGED <<inputs, earlier, partial, before, lines, idx, row_add>>

\* let highlighter = create_highlighter(opts.color)?;
CreateHighlighter ==
    /\ pc = "create"
    /\ LET r == create_highlighter(opts.color, configOk)
       IN /\ highlighter' = r.h
          /\ pc' = IF r.ok THEN "header" ELSE "done"
          /\ result' = IF r.ok THEN result ELSE "ErrHighlightConfig"
    /\ UNCHANGED <<inputs, earlier, out, partial, attempts, before, lines, idx,
                   row_add>>

\* writeln!(writer, "{warn}warning{reset}{bold}: [..] ..{reset}")?;
WriteHeader ==
    /\ pc = "header"
    /\ Writeln("header", HeaderLine, "location", result)
    /\ UNCHANGED <<inputs, earlier, highlighter, before, lines, idx, row_add>>

\* The location line, then the return for an empty byte span.
WriteLocation ==
    /\ pc = "location"
    /\ IF IsEmptySpan(range)
       THEN Writeln("location", LocationLine, "done", "Ok")
       ELSE Writeln("location", LocationLine, "separator", result)
    /\ UNCHANGED <<inputs, earlier, highlighter, before, lines, idx, row_add>>

\* writeln!(writer, "{prefix}")?; then the context before the match is
\* collected, and Lines is created anew when that loop has nothing to do.
WriteSeparator ==
    /\ pc = "separator"
    /\ LET v == EnumerateRev(CollectBefore)
           ls == LinesForward(code, range.bytes.start)
       IN /\ before' = v
          /\ lines' = ls
          /\ Writeln("separator", prefix,
                     IF v # <<>> THEN "before" ELSE MatchPc(ls), result)
    /\ UNCHANGED <<inputs, earlier, highlighter, idx, row_add>>

\* One turn of the try_for_each over the context before the match.
WriteContextBefore ==
    /\ pc = "before"
    /\ before # <<>>
    /\ LET item == Head(before)
           row == start_row - item.row_sub - 1
       IN IF row < 0
          THEN \* usize underflow: a panic with overflow checks on
               /\ pc' = "done"
               /\ result' = "Panic"
               /\ UNCHANGED <<out, partial, attempts, before>>
          ELSE /\ before' = Tail(before)
               /\ Writeln("context_before", ContextLine(row, item.line),
                          IF Tail(before) # <<>> THEN "before" ELSE MatchPc(lines),
                          result)
    /\ UNCHANGED <<inputs, earlier, highlighter, lines, idx, row_add>>

\* Single-line match: lines.next().unwrap() and the code line.
WriteMatchLine ==
    /\ pc = "single"
    /\ IF lines = <<>>
       THEN /\ pc' = "done"
            /\ result' = "Panic"
            /\ UNCHANGED <<out, partial, attempts, lines>>
       ELSE /\ lines' = Tail(lines)
            /\ Writeln("match_row", MatchLine(Head(lines)), "underline", result)
    /\ UNCHANGED <<inputs, earlier, highlighter, before, idx, row_add>>

\* Single-line match: the underline of carets.
WriteUnderline ==
    /\ pc = "underline"
    /\ Writeln("underline", UnderlineLine, AfterPc(lines, 0), result)
    /\ UNCHANGED <<inputs, earlier, highlighter, before, lines, idx, row_add>>

\* Multi-line match: one turn of the loop over start_row..=end_row.  The
\* loop ends after end_row, or breaks when Lines has no line left.
WriteMatchRow ==
    /\ pc = "multi"
    /\ lines # <<>>
    /\ idx <= end_row - start_row
    /\ lines' = Tail(lines)
    /\ idx' = idx + 1
    /\ Writeln("match_row", MatchRowLine(idx, start_row + idx, Head(lines)),
               RowLoopPc(idx + 1, Tail(lines)), result)
    /\ UNCHANGED <<inputs, earlier, highlighter, before, row_add>>

\* Multi-line match: the closing underline.
WriteClosingUnderline ==
    /\ pc = "close"
    /\ Writeln("underline", ClosingLine, AfterPc(lines, 0), result)
    /\ UNCHANGED <<inputs, earlier, highlighter, before, lines, idx, row_add>>

\* A faulty row number: end_row + row_add, without the + 1.
WriteContextAfterOffByOne ==
    /\ pc = "after"
    /\ lines # <<>>
    /\ row_add < context_after
    /\ lines' = Tail(lines)
    /\ row_add' = row_add + 1
    /\ Writeln("context_after", ContextLine(end_row + row_add, Head(lines)),
               AfterPc(Tail(lines), row_add + 1), result)
    /\ UNCHANGED <<inputs, earlier, highlighter, before, idx>>

\* One turn of the try_for_each over lines.take(extra_lines.1).
WriteContextAfter ==
    /\ pc = "after"
    /\ lines # <<>>
    /\ row_add < context_after
    /\ lines' = Tail(lines)
    /\ row_add' = row_add + 1
    /\ Writeln("context_after", ContextLine(end_row + row_add + 1, Head(lines)),
               AfterPc(Tail(lines), row_add + 1), result)
    /\ UNCHANGED <<inputs, earlier, highlighter, before, idx>>

\* writeln!(writer, "{prefix}")?; Ok(())
WriteFinalSeparator ==
    /\ pc = "final"
    /\ Writeln("final_separator", prefix, "done", "Ok")
    /\ UNCHANGED <<inputs, earlier, highlighter, before, lines, idx, row_add>>

Next ==
    \/ CreateHighlighter
    \/ WriteHeader
    \/ WriteLocation
    \/ WriteSeparator
    \/ WriteContextBefore
    \/ WriteMatchLine
    \/ WriteUnderline
    \/ WriteMatchRow
    \/ WriteClosingUnderline
    \/ WriteContextAfter
    \/ WriteFinalSeparator

\* The build for a terminal (not(target_arch = "wasm32")).
Init == InitTarget("native")
Spec == Init /\ [][Next]_vars

\* The build for the browser (target_arch = "wasm32").
InitWasm == InitTarget("wasm32")
SpecWasm == InitWasm /\ [][Next]_vars

\* A faulty second call: the enumerate() indices go on where the call
\* before left them.
CallAgainKeepsIndices ==
    /\ pc = "done"
    /\ ~again
    /\ result # "ErrIo"
    /\ again' = TRUE
    /\ prev' = [texts |-> [i \in 1..Len(out) |-> out[i].text],
                result |-> result]
    /\ pc' = "create"
    /\ highlighter' = "none"
    /\ out' = <<>>
    /\ partial' = <<>>
    /\ attempts' = 0
    /\ result' = "running"
    /\ before' = <<>>
    /\ lines' = <<>>
    /\ UNCHANGED <<inputs, idx, row_add>>

\* The caller calls the same entry point once more with the same match,
\* buffer, path and options and a new sink, after a call whose sink took
\* every line.  report_opts has no static and no field: parameters and
\* locals are bound anew, the highlighter is built anew.
CallAgain ==
    /\ pc = "done"
    /\ ~again
    /\ result # "ErrIo"
    /\ again' = TRUE
    /\ prev' = [texts |-> [i \in 1..Len(out) |-> out[i].text],
                result |-> result]
    /\ pc' = "create"
    /\ highlighter' = "none"
    /\ out' = <<>>
    /\ partial' = <<>>
    /\ attempts' = 0
    /\ result' = "running"
    /\ before' = <<>>
    /\ lines' = <<>>
    /\ idx' = 0
    /\ row_add' = 0
    /\ UNCHANGED inputs

\* Two calls in a row on the terminal build.
NextTwice ==
    \/ Next
    \/ CallAgain
SpecTwice == Init /\ [][NextTwice]_vars

\* ------------------------------------------------- reading a report ---
\* A written line without its style tokens.
Strip(text) == SelectSeq(text, LAMBDA a : a \notin StyleAtoms)

\* The number of decimal digits of n.
RECURSIVE DecimalWidth(_)
DecimalWidth(n) == IF n < 10 THEN 1 ELSE 1 + DecimalWidth(n \div 10)

\* The width of the gutter of a written line: what stands before " |".
BarAt(t) == CHOOSE i \in 1..Len(t) : t[i] = "|" /\ \A j \in 1..(i - 1) : t[j] # "|"
HasBar(t) == \E i \in 1..Len(t) : t[i] = "|"
GutterWidth(text) ==
    IF HasBar(Strip(text)) THEN BarAt(Strip(text)) - 2 ELSE -1

\* What follows the gutter ("<gutter> | ") of a written line.
AfterGutter(text) ==
    SubSeq(Strip(text), BarAt(Strip(text)) + 2, Len(Strip(text)))

\* The row number printed in a gutter, -1 for a blank gutter.
DigitValue(c) == CHOOSE d \in 0..9 : DigitChar(d) = c
RECURSIVE ParseNum(_)
ParseNum(ds) ==
    IF ds = <<>> THEN 0
    ELSE 10 * ParseNum(SubSeq(ds, 1, Len(ds) - 1)) + DigitValue(ds[Len(ds)])
RowLabel(text) ==
    LET g == SelectSeq(SubSeq(Strip(text), 1, GutterWidth(text)),
                       LAMBDA a : a # " ")
    IN IF g = <<>> THEN -1 ELSE ParseNum(g)

Kinds == [i \in 1..Len(out) |-> out[i].kind]
OfKind(k) == SelectSeq(out, LAMBDA l : l.kind = k)
GutterKinds == {"separator", "context_before", "match_row", "underline",
                "context_after", "final_separator"}

NonEmptySpan == range.bytes.start < range.bytes.end
SinkFailed == result = "ErrIo"
Returned == pc = "done"
\* The call came to its end with a highlighter built and no write refused.
Completed == Returned /\ result \notin {"ErrIo", "ErrHighlightConfig"}

\* The number of lines of the buffer, and of those before and after a row.
LineCount == Len(AllLines(code))
LinesBeforeRow(r) == Min(r, LineCount)
LinesAfterRow(r) == Max(LineCount - r - 1, 0)

\* -------------------------------------------------------------- claims ---
\* C1: for a match whose byte span is empty, whatever the buffer, path and
\* options, report_opts writes the header line and the location line and
\* nothing else, and returns Ok: no separator, code line or underline is
\* ever written.
C1_EmptySpanHeaderAndLocationOnly ==
    ~NonEmptySpan =>
        /\ IsPrefix(Kinds, <<"header", "location">>)
        /\ attempts <= 2
        /\ Completed => (result = "Ok" /\ Kinds = <<"header", "location">>)

C1_Witness ==
    /\ ~NonEmptySpan
    /\ Returned /\ result = "Ok"
    /\ Len(out) = 2
    /\ context_before > 0 /\ context_after > 0
    /\ LineCount > 1

C3_GutterWidth ==
    \A i \in 1..Len(out) :
        out[i].kind \in GutterKinds =>
            GutterWidth(out[i].text) = DecimalWidth(end_row + context_after)

C3_Witness ==
    /\ Returned /\ result = "Ok" /\ NonEmptySpan
    /\ DecimalWidth(end_row + context_after) = 2
    /\ Len(OfKind("context_after")) = 1
    /\ Len(OfKind("context_before")) = 1
    /\ LinesAfterRow(end_row) < context_after

\* C4: for a match with a non-empty byte span the call does not fail on
\* the context counts: it writes min(context_before, lines before the
\* start row) context lines before the match and min(context_after, lines
\* after the end row) after it, and never more than that.
C4_ContextClamped ==
    NonEmptySpan =>
        /\ Len(OfKind("context_before"))
               <= Min(context_before, LinesBeforeRow(start_row))
        /\ Len(OfKind("context_after"))
               <= Min(context_after, LinesAfterRow(end_row))
        /\ Completed =>
               /\ result = "Ok"
               /\ Len(OfKind("context_before"))
                      = Min(context_before, LinesBeforeRow(start_row))
               /\ Len(OfKind("context_after"))
                      = Min(context_after, LinesAfterRow(end_row))

C4_Witness ==
    /\ Returned /\ result = "Ok" /\ NonEmptySpan
    /\ context_before > LinesBeforeRow(start_row)
    /\ context_after > LinesAfterRow(end_row)
    /\ Len(OfKind("context_before")) = 1
    /\ Len(OfKind("context_after")) = 1

\* C5: for a multi-line match whose rows all exist in the buffer the call
\* writes one row line per row of start_row..end_row, in ascending order,
\* each labelled with its row number; the connector of the first row line
\* is '/', that of every later one '|'.
RowsExist == end_row < LineCount
C5_MultiLineRows ==
    (NonEmptySpan /\ start_row < end_row /\ RowsExist) =>
        LET rows == OfKind("match_row")
        IN /\ Len(rows) <= end_row - start_row + 1
           /\ \A i \in 1..Len(rows) :
                 /\ RowLabel(rows[i].text) = start_row + i - 1
                 /\ IsPrefix(<<" ", IF i = 1 THEN "/" ELSE "|", " ">>,
                             AfterGutter(rows[i].text))
           /\ (Completed \/ "underline" \in {Kinds[j] : j \in 1..Len(Kinds)})
                  => Len(rows) = end_row - start_row + 1

C5_Witness ==
    /\ NonEmptySpan /\ RowsExist /\ end_row = start_row + 2
    /\ Returned /\ result = "Ok"
    /\ Len(OfKind("match_row")) = 3

\* C6: when a multi-line range has more rows than the buffer has lines
\* from the start row on, the call does not fail: it writes row lines for
\* the lines that exist only, then the closing underline and the final
\* separator, and returns Ok.
C6_RowsTruncated ==
    (NonEmptySpan /\ start_row < end_row /\ ~RowsExist) =>
        /\ Len(OfKind("match_row")) <= LineCount - start_row
        /\ Len(OfKind("context_after")) = 0
        /\ Completed =>
               /\ result = "Ok"
               /\ Len(OfKind("match_row")) = LineCount - start_row
               /\ Len(Kinds) >= 2
               /\ Kinds[Len(Kinds) - 1] = "underline"
               /\ Kinds[Len(Kinds)] = "final_separator"
               /\ Kinds[Len(Kinds) - 2] = "match_row"

C6_Witness ==
    /\ NonEmptySpan /\ start_row < end_row
    /\ end_row = LineCount
    /\ code[Len(code)] = NL
    /\ Returned /\ result = "Ok"
    /\ Len(OfKind("match_row")) = 1
    /\ Len(OfKind("underline")) = 1

\* C7: the closing underline of a multi-line match is the blank gutter,
\* one space, '|', exactly end_col '_' and one '^'; the fill depends on
\* end_col alone, so end_col = 0 gives "|^".
C7_ClosingUnderline ==
    \A i \in 1..Len(out) :
        (out[i].kind = "underline" /\ start_row < end_row) =>
            /\ RowLabel(out[i].text) = -1
            /\ AfterGutter(out[i].text) =
                   <<" ", "|">> \o Repeat("_", end_col) \o <<"^">>

C7_Witness ==
    /\ NonEmptySpan /\ start_row < end_row
    /\ start_col > 0 /\ end_col > 0 /\ end_col < start_col
    /\ \E i \in 1..Len(out) : out[i].kind = "underline"

\* C8: with colour off on the terminal target all four format tokens are
\* the empty string and the no-op highlighter is selected: no style token
\* is written, and the code of every code line is the lossily decoded
\* line of the buffer.
CodeKinds == {"context_before", "match_row", "context_after"}
Indent(l) ==
    IF l.kind = "match_row" /\ start_row < end_row
    THEN <<" ", IF RowLabel(l.text) = start_row THEN "/" ELSE "|", " ">>
    ELSE Repeat(" ", IF start_row < end_row THEN 3 ELSE 0)
Decoded(line) ==
    [j \in 1..Len(line) |-> IF line[j] \in {"<", NL} THEN line[j] ELSE REPLACEMENT]
C8_NoColourNoStyle ==
    (target = "native" /\ ~opts.color) =>
        /\ fmt.bold = <<>> /\ fmt.warn = <<>>
        /\ fmt.highlight = <<>> /\ fmt.reset = <<>>
        /\ pc # "create" => highlighter = "Nop"
        /\ \A i \in 1..Len(out) :
              /\ \A j \in 1..Len(out[i].text) :
                    out[i].text[j] \notin StyleAtoms \cup {BAD}
              /\ out[i].kind \in CodeKinds =>
                    /\ RowLabel(out[i].text) + 1 \in 1..LineCount
                    /\ AfterGutter(out[i].text) =
                           Indent(out[i])
                           \o Decoded(AllLines(code)[RowLabel(out[i].text) + 1])

C8_Witness ==
    /\ target = "native" /\ ~opts.color
    /\ Returned /\ result = "Ok" /\ NonEmptySpan
    /\ \E i \in 1..Len(out) :
          /\ out[i].kind = "match_row"
          /\ REPLACEMENT \in {out[i].text[j] : j \in 1..Len(out[i].text)}
    /\ \E i \in 1..Len(code) : code[i] = BAD

\* The report of the call on a sink that never fails, read off the buffer
\* by line index: the texts of its lines, in order.
MatchIndex == PointOf(code, range.bytes.start).row + 1
ReportOnGoodSink ==
    LET all == AllLines(code)
        mi == MatchIndex
        nb == Min(context_before, mi - 1)
        last == IF start_row = end_row THEN mi
                ELSE Min(mi + (end_row - start_row), Len(all))
        na == Min(context_after, Len(all) - last)
    IN IF opts.color /\ ~configOk THEN <<>>
       ELSE IF ~NonEmptySpan THEN <<HeaderLine, LocationLine>>
       ELSE <<HeaderLine, LocationLine, prefix>>
            \o [i \in 1..nb |->
                   ContextLine(start_row - nb + i - 1, all[mi - nb + i - 1])]
            \o (IF start_row = end_row
                THEN <<MatchLine(all[mi]), UnderlineLine>>
                ELSE [i \in 1..(last - mi + 1) |->
                         MatchRowLine(i - 1, start_row + i - 1, all[mi + i - 1])]
                     \o <<ClosingLine>>)
            \o [i \in 1..na |-> ContextLine(end_row + i, all[last + i])]
            \o <<prefix>>

Texts == [i \in 1..Len(out) |-> out[i].text]

\* C9: when a write to the sink fails the call returns the error at once
\* and writes no more; what the sink took before stays written and is a
\* prefix of what the same call writes to a sink that never fails.
C9_SinkFailureAborts ==
    /\ attempts \in {Len(out), Len(out) + 1}
    /\ attempts = Len(out) + 1 <=> SinkFailed
    /\ SinkFailed =>
           LET report == ReportOnGoodSink
           IN /\ Returned
              /\ Len(out) < Len(report)
              /\ Texts = SubSeq(report, 1, Len(out))
              /\ IsPrefix(partial, report[Len(out) + 1])
    /\ partial # <<>> => SinkFailed

C9_Witness ==
    /\ SinkFailed /\ Returned
    /\ Len(out) = 5
    /\ partial # <<>>
    /\ out[5].kind = "match_row"

\* C10: with colour on, a failure to construct the syntax highlighter is
\* returned to the caller; the call does not go on with the no-op
\* highlighter and writes no unhighlighted report.
C10_ConfigErrorPropagates ==
    (opts.color /\ ~configOk /\ pc # "create") =>
        /\ Returned
        /\ result = "ErrHighlightConfig"
        /\ highlighter # "Nop"
        /\ Len(out) = 0

C10_Witness ==
    /\ opts.color /\ ~configOk
    /\ Returned /\ result = "ErrHighlightConfig"
    /\ NonEmptySpan

\* C11: report writes what report_opts writes when it is called with the
\* default options, and returns the same: the options the call runs with
\* are no context and colour off, so the no-op highlighter is used, no
\* context line and no style token is written, the gutter is as wide as
\* end_row, and the lines are those of report_opts for these options.
C11_ReportIsReportOptsDefault ==
    entry = "report" =>
        /\ opts = [extra_lines |-> <<0, 0>>, color |-> FALSE]
        /\ result # "ErrHighlightConfig"
        /\ pc # "create" => highlighter = "Nop"
        /\ OfKind("context_before") = <<>> /\ OfKind("context_after") = <<>>
        /\ \A i \in 1..Len(out) :
              /\ Strip(out[i].text) = out[i].text
              /\ out[i].kind \in GutterKinds =>
                     GutterWidth(out[i].text) = DecimalWidth(end_row)
        /\ IsPrefix(Texts, ReportOnGoodSink)
        /\ Completed => (result = "Ok" /\ Texts = ReportOnGoodSink)

C11_Witness ==
    /\ entry = "report"
    /\ Returned /\ result = "Ok" /\ NonEmptySpan
    /\ LinesBeforeRow(start_row) > 0 /\ LinesAfterRow(end_row) > 0
    /\ Kinds = <<"header", "location", "separator", "match_row",
                 "underline", "final_separator">>

Rank(k) ==
    CASE k = "header" -> 1
      [] k = "location" -> 2
      [] k = "separator" -> 3
      [] k = "context_before" -> 4
      [] k = "match_row" -> 5
      [] k = "underline" -> 6
      [] k = "context_after" -> 7
      [] k = "final_separator" -> 8
Repeatable == {"context_before", "match_row", "context_after"}
C13_LineOrder ==
    NonEmptySpan =>
        /\ IsPrefix(SubSeq(Kinds, 1, Min(4, Len(Kinds))),
                    <<"header", "location", "separator", "context_before">>)
           \/ IsPrefix(SubSeq(Kinds, 1, Min(4, Len(Kinds))),
                       <<"header", "location", "separator", "match_row">>)
        /\ \A i \in 1..(Len(Kinds) - 1) :
              \/ Rank(Kinds[i]) < Rank(Kinds[i + 1])
              \/ Kinds[i] = Kinds[i + 1] /\ Kinds[i] \in Repeatable
        /\ \A i \in 1..Len(Kinds) :
              /\ Kinds[i] = "underline" => (i > 1 /\ Kinds[i - 1] = "match_row")
              /\ Kinds[i] = "match_row" /\ i < Len(Kinds)
                    => Kinds[i + 1] \in {"match_row", "underline"}
              /\ Kinds[i] = "context_after"
                    => Kinds[i - 1] \in {"underline", "context_after"}
              /\ Kinds[i] = "final_separator"
                    => /\ i = Len(Kinds) /\ Returned
                       /\ Kinds[i - 1] \in {"underline", "context_after"}
        /\ Completed =>
               /\ result = "Ok"
               /\ Kinds[Len(Kinds)] = "final_separator"
               /\ Len(OfKind("underline")) = 1

C13_Witness ==
    /\ Returned /\ result = "Ok"
    /\ Kinds = <<"header", "location", "separator", "context_before",
                 "match_row", "match_row", "underline", "final_separator">>

\* C14: with colour off the source text of every context line starts at
\* the column at which the source text of the match rows starts: right
\* after the gutter for a single-line match, three columns further for a
\* multi-line match, where a match row has its connector in these three
\* columns and a context line has blanks.
SourceOf(l) == Decoded(AllLines(code)[RowLabel(l.text) + 1])
SourceColumn(l) == Len(AfterGutter(l.text)) - Len(SourceOf(l))
C14_ContextAligned ==
    ~opts.color =>
        \A i \in 1..Len(out) :
            out[i].kind \in CodeKinds =>
                LET ag == AfterGutter(out[i].text)
                    col == SourceColumn(out[i])
                IN /\ col = IF start_row = end_row THEN 0 ELSE 3
                   /\ SubSeq(ag, col + 1, Len(ag)) = SourceOf(out[i])
                   /\ out[i].kind # "match_row"
                         => \A j \in 1..col : ag[j] = " "
                   /\ out[i].kind = "match_row" /\ col = 3
                         => /\ ag[1] = " " /\ ag[3] = " "
                            /\ ag[2] \in {"/", "|"}

C14_Witness ==
    /\ ~opts.color /\ start_row < end_row
    /\ \E i \in 1..Len(out) :
          /\ out[i].kind = "context_before"
          /\ AfterGutter(out[i].text) = <<" ", " ", " ", "<">>
    /\ \E i \in 1..Len(out) :
          /\ out[i].kind = "match_row"
          /\ SourceColumn(out[i]) = 3

\* The sequence Lines::new(code, range.bytes.start).rev() yields, and the
\* lines of the buffer strictly before the line of that offset, closest
\* first.
ReverseSequence == LinesBackward(code, range.bytes.start)
LinesStrictlyBefore ==
    Reverse(SubSeq(AllLines(code), 1,
                   PointOf(code, range.bytes.start).row))

\* C15 as stated: reverse iteration yields only the lines strictly before
\* the line of the offset, closest first, never that line itself, and the
\* context-before lines written are taken from this sequence: the
\* closest context line is its first item.
C15_Original_ReverseExcludesOffsetLine ==
    LET cb == OfKind("context_before")
    IN cb # <<>> =>
          /\ ReverseSequence = LinesStrictlyBefore
          /\ \E n \in 1..Len(ReverseSequence) :
                \A j \in 1..Len(cb) :
                    /\ n - j + 1 \in 1..Len(ReverseSequence)
                    /\ cb[j].text =
                           ContextLine(start_row - n + j - 1,
                                       ReverseSequence[n - j + 1])

\* C15 amended: reverse iteration yields the line of the offset first and
\* then the lines before it, closest first.  The renderer skips that
\* first item: the match row shows it, and the context-before lines are
\* the next context_before items (fewer if the sequence ends), written in
\* buffer order.
C15_ReverseStartsAtOffsetLine ==
    NonEmptySpan =>
        LET rev == ReverseSequence
            cb == OfKind("context_before")
            rows == OfKind("match_row")
            nb == Min(context_before, Len(rev) - 1)
        IN /\ Len(rev) = start_row + 1
           /\ Tail(rev) = LinesStrictlyBefore
           /\ Len(cb) <= nb
           /\ \A j \in 1..Len(cb) :
                 cb[j].text = ContextLine(start_row - nb + j - 1,
                                          rev[nb - j + 2])
           /\ rows # <<>> =>
                 /\ Len(cb) = nb
                 /\ rows[1].text = IF start_row = end_row
                                   THEN MatchLine(rev[1])
                                   ELSE MatchRowLine(0, start_row, rev[1])

C15_Witness ==
    /\ NonEmptySpan /\ Returned /\ result = "Ok"
    /\ Len(OfKind("context_before")) = 2
    /\ ReverseSequence[1] # ReverseSequence[2]
    /\ context_before > 2

\* The end point is the point of bytes.end, as the start point is that of
\* bytes.start: the Range is consistent with the buffer.
RangeConsistent ==
    /\ range.start_point = PointOf(code, range.bytes.start)
    /\ range.end_point = PointOf(code, range.bytes.end)

\* The numbered lines of the report, and whether a numbered line shows
\* the line of the buffer whose zero-based row is its number.
Numbered == SelectSeq(out, LAMBDA l : l.kind \in CodeKinds)
ShowsItsRow(l) ==
    LET r == RowLabel(l.text)
    IN /\ r + 1 \in 1..LineCount
       /\ l.text = IF l.kind # "match_row"
                       THEN ContextLine(r, AllLines(code)[r + 1])
                    ELSE IF start_row = end_row
                       THEN MatchLine(AllLines(code)[r + 1])
                    ELSE MatchRowLine(r - start_row, r, AllLines(code)[r + 1])
\* The numbers go up by one from line to line, start at start_row less
\* the context lines written before the match, each is the row of the
\* line shown, and the row number of a context line never underflows.
RowsContiguous ==
    /\ result # "Panic"
    /\ pc = "before" => start_row - Head(before).row_sub - 1 >= 0
    /\ \A i \in 1..Len(Numbered) : ShowsItsRow(Numbered[i])
    /\ \A i \in 1..(Len(Numbered) - 1) :
          RowLabel(Numbered[i + 1].text) = RowLabel(Numbered[i].text) + 1
    /\ OfKind("match_row") # <<>> =>
          RowLabel(Numbered[1].text)
              = start_row - Len(OfKind("context_before"))

\* C16 as stated: for a consistent Range the gutter numbers are a run
\* going up by one from start_row - (context lines before) to
\* end_row + (context lines after), each the row of the line shown, and
\* the context-before row number never underflows.
C16_Original_RunEndsAtEndRow ==
    (NonEmptySpan /\ RangeConsistent) =>
        /\ RowsContiguous
        /\ Completed =>
               RowLabel(Numbered[Len(Numbered)].text)
                   = end_row + Len(OfKind("context_after"))

\* C16 amended: as stated, except that when the byte span ends right
\* after the final newline of the buffer, so that end_row is one past the
\* last line, the run ends at the last line, end_row - 1, and no context
\* line follows.
C16_RowsContiguous ==
    (NonEmptySpan /\ RangeConsistent) =>
        /\ RowsContiguous
        /\ end_row <= LineCount
        /\ Completed =>
               RowLabel(Numbered[Len(Numbered)].text)
                   = IF end_row < LineCount
                     THEN end_row + Len(OfKind("context_after"))
                     ELSE end_row - 1
        /\ end_row = LineCount => OfKind("context_after") = <<>>

C16_Witness ==
    /\ NonEmptySpan /\ RangeConsistent
    /\ Returned /\ result = "Ok"
    /\ end_row = LineCount /\ start_row > 0
    /\ context_after > 0
    /\ Len(OfKind("context_before")) = 1
    /\ Len(Numbered) = 2

\* C17 as stated: on the HTML build every text the caller supplies is
\* written HTML-escaped, with colour on and off: the lint name and the
\* message in the header, the path in the location line, and the source
\* line in every code line; apart from the renderer's own span tags
\* (and its chrome) nothing is written unescaped.
C17_CallerTextEscaped ==
    target = "wasm32" =>
        \A i \in 1..Len(out) :
            /\ out[i].kind = "header" =>
                   Strip(out[i].text) =
                       <<"w", "a", "r", "n", "i", "n", "g", ":", " ", "[">>
                       \o EncodeSafe(m.lint_name) \o <<"]", " ">>
                       \o EncodeSafe(m.message)
            /\ out[i].kind = "location" =>
                   Strip(out[i].text) =
                       <<" ", " ", "-", "-", ">", " ">>
                       \o EncodeSafe(PathDisplay) \o <<":">>
                       \o ToDigits(start_row) \o <<":">> \o ToDigits(start_col)
            /\ out[i].kind \in CodeKinds =>
                   /\ RowLabel(out[i].text) + 1 \in 1..LineCount
                   /\ AfterGutter(out[i].text) =
                          Indent(out[i])
                          \o EncodeSafe(Decoded(
                                 AllLines(code)[RowLabel(out[i].text) + 1]))

\* C18: when the construction of the highlighter fails the call returns
\* the error before it writes: no writeln! was attempted, the sink holds
\* no line and no part of a line, not even of the header.
C18_NoWriteBeforeConfigError ==
    /\ (opts.color /\ ~configOk) =>
           (attempts = 0 /\ out = <<>> /\ partial = <<>>)
    /\ result = "ErrHighlightConfig" =>
           (Returned /\ attempts = 0 /\ out = <<>> /\ partial = <<>>)

C18_Witness ==
    /\ Returned /\ result = "ErrHighlightConfig"
    /\ attempts = 0 /\ out = <<>>
    /\ context_before > 0 /\ LineCount > 1

====
